---- MODULE Spec2Model ----
(***************************************************************************)
(* Model of the UEMCP TCP command server                                   *)
(* (Source/UEMCP/Private/UEMCPTCPServer.cpp) and of the module that drives *)
(* it (Source/UEMCP/Private/UEMCP.cpp).                                    *)
(*                                                                         *)
(* The server is a singleton ticked from the host's frame loop.  The host  *)
(* thread is the only thread that runs server code, so Start, Stop, Tick   *)
(* and the module hooks never interleave with each other; the clients on   *)
(* the other side of the sockets run concurrently with it, also while a    *)
(* Tick is in progress.                                                    *)
(***************************************************************************)
EXTENDS Integers, Sequences, FiniteSets, TLC

(* ----------------------------- bounds --------------------------------- *)

\* Number of socket handles the socket subsystem can hand out in one run.
MaxHandles == 3

\* Largest number of unread bytes a client connection holds at one time.
MaxPending == 2

(* ------------------------- program constants -------------------------- *)

\* UEMCPTCPServer.cpp:168, the largest buffer one Recv is given.
MaxRecvBuffer == 65507

\* UEMCP.cpp:15, the port the module starts the server on.
DefaultPort == 7000

\* Ports a caller of Start passes: the module's and another one.
Ports == {DefaultPort, DefaultPort + 1}

\* nullptr
Null == 0

Handles == 1..MaxHandles

Min(a, b) == IF a < b THEN a ELSE b

Range(s) == { s[k] : k \in 1..Len(s) }

RECURSIVE Reverse(_)
Reverse(s) == IF s = <<>> THEN <<>> ELSE Append(Reverse(Tail(s)), Head(s))

\* TArray::Remove(Item): removes every element equal to Item, keeps the order.
RECURSIVE TArray_Remove(_, _)
TArray_Remove(s, item) ==
    IF s = <<>> THEN <<>>
    ELSE IF Head(s) = item THEN TArray_Remove(Tail(s), item)
         ELSE <<Head(s)>> \o TArray_Remove(Tail(s), item)

(* ------------------------------ state --------------------------------- *)

VARIABLES
    Instance,           \* UEMCPTCPServer::Instance is non-null
    ListenSocket,       \* Instance->ListenSocket (Null or a handle)
    ConnectedSockets,   \* Instance->ConnectedSockets, in TArray order
    bIsServerRunning,   \* Instance->bIsServerRunning
    serverObjects,      \* UEMCPTCPServer objects constructed and not yet destructed
    TickHandleBound,    \* TickDelegateHandle names a binding that is on OnWorldTick
    StaleTickBinding,   \* OnWorldTick holds a binding of an earlier AddRaw whose
                        \* handle was overwritten since
    ModuleLoaded,       \* StartupModule has run and ShutdownModule has not
    pc,                 \* where the host thread is: "idle", "HandleData" (inside
                        \* Tick_Internal) or "crashed" (the process was killed)
    idx,                \* loop variable i of Tick_Internal, 1-based (0 = i < 0)
    nextHandle,         \* socket subsystem: next handle to hand out
    kind,               \* socket subsystem: handle -> "none" | "listen" | "client"
    closed,             \* socket subsystem: handle -> number of Close() calls
    destroyed,          \* socket subsystem: handle -> number of DestroySocket() calls
    connState,          \* transport: handle -> "Connected" | "NotConnected"
    pending,            \* transport: handle -> unread bytes
    misuse,             \* a socket call was made on nullptr or on a released handle
    lastOp,             \* name of the step taken last
    startResult,        \* value returned by the last Start
    tickList,           \* ConnectedSockets right after HandleNewConnection of the last Tick
    tickLog,            \* socket polls of the last Tick, in the order performed
    passLog,            \* the last step's Accept, Recv and HandleCommand calls, in order
    lastMsg,            \* index of the message HandleCommand received last (0 = none)
    lastResult          \* what HandleCommand did with it

srvVars == <<Instance, ListenSocket, ConnectedSockets, bIsServerRunning, serverObjects>>
sockVars == <<nextHandle, kind, closed, destroyed, connState, pending, misuse>>
cmdVars == <<lastMsg, lastResult>>
tickVars == <<tickList, tickLog>>
modVars == <<TickHandleBound, StaleTickBinding, ModuleLoaded>>

\* FUEMCPModule::Tick is bound to OnWorldTick at least once.
TickRegistered == TickHandleBound \/ StaleTickBinding
vars == <<srvVars, sockVars, cmdVars, tickVars, passLog, modVars, pc, idx, lastOp,
          startResult>>

\* The server object and the socket subsystem as one value, so that the
\* member functions compose as they call each other.
World ==
    [ Instance |-> Instance, ListenSocket |-> ListenSocket,
      ConnectedSockets |-> ConnectedSockets, bIsServerRunning |-> bIsServerRunning,
      nextHandle |-> nextHandle, kind |-> kind, closed |-> closed,
      destroyed |-> destroyed, connState |-> connState, pending |-> pending,
      misuse |-> misuse, serverObjects |-> serverObjects, killed |-> FALSE ]

\* killed: the process was killed in the middle of the operation.  It is
\* not stored; the step that commits such a world moves pc to "crashed".
Commit(w) ==
    /\ Instance' = w.Instance
    /\ ListenSocket' = w.ListenSocket
    /\ ConnectedSockets' = w.ConnectedSockets
    /\ bIsServerRunning' = w.bIsServerRunning
    /\ nextHandle' = w.nextHandle
    /\ kind' = w.kind
    /\ closed' = w.closed
    /\ destroyed' = w.destroyed
    /\ connState' = w.connState
    /\ pending' = w.pending
    /\ misuse' = w.misuse
    /\ serverObjects' = w.serverObjects

NoResult == [outcome |-> "none", calls |-> <<>>]

Init ==
    /\ Instance = FALSE
    /\ ListenSocket = Null
    /\ ConnectedSockets = <<>>
    /\ bIsServerRunning = FALSE
    /\ serverObjects = 0
    /\ TickHandleBound = FALSE
    /\ StaleTickBinding = FALSE
    /\ ModuleLoaded = FALSE
    /\ pc = "idle"
    /\ idx = 0
    /\ nextHandle = 1
    /\ kind = [h \in Handles |-> "none"]
    /\ closed = [h \in Handles |-> 0]
    /\ destroyed = [h \in Handles |-> 0]
    /\ connState = [h \in Handles |-> "NotConnected"]
    /\ pending = [h \in Handles |-> 0]
    /\ misuse = FALSE
    /\ lastOp = "Init"
    /\ startResult = FALSE
    /\ tickList = <<>>
    /\ tickLog = <<>>
    /\ passLog = <<>>
    /\ lastMsg = 0
    /\ lastResult = NoResult

(* ------------------------- socket subsystem --------------------------- *)

\* A call on socket h: h must be a handle that is neither closed nor destroyed.
Use(w, h) ==
    IF h = Null THEN [w EXCEPT !.misuse = TRUE]
    ELSE IF w.kind[h] = "none" \/ w.closed[h] > 0 \/ w.destroyed[h] > 0
         THEN [w EXCEPT !.misuse = TRUE]
         ELSE w

\* FSocket::Close() on handle h.
Socket_Close(w, h) ==
    [Use(w, h) EXCEPT !.closed[h] = @ + 1,
              !.connState[h] = "NotConnected",
              !.pending[h] = 0]

\* ISocketSubsystem::DestroySocket(h): the socket object is deleted.
DestroySocket(w, h) ==
    [w EXCEPT !.misuse = @ \/ (w.destroyed[h] > 0),
              !.destroyed[h] = @ + 1,
              !.connState[h] = "NotConnected",
              !.pending[h] = 0]

\* A handle is open: handed out and neither closed nor destroyed.
IsOpen(h) == kind[h] # "none" /\ closed[h] = 0 /\ destroyed[h] = 0

BuildOutcomes == {"ok", "createfail", "bindfail", "listenfail"}

\* FTcpSocketBuilder(...).AsReusable().BoundToEndpoint(Endpoint).Listening(8)
\* converted to FSocket*: the socket is created, bound and put in listening
\* state; when a step after creation fails the builder destroys the socket
\* it created and yields nullptr.  Result: <<world, handle or Null>>.
TcpSocketBuilder_Build(w, Port, build) ==
    IF build = "createfail" \/ w.nextHandle > MaxHandles
    THEN <<w, Null>>
    ELSE LET h == w.nextHandle
             w1 == [w EXCEPT !.nextHandle = @ + 1, !.kind[h] = "listen"]
         IN IF build = "ok"
            THEN <<w1, h>>
            ELSE <<DestroySocket(w1, h), Null>>

(* --------------------------- the singleton ---------------------------- *)

\* UEMCPTCPServer::Get with the constructor: a new instance has no listening
\* socket, no connections and is not running.
Get(w) ==
    IF w.Instance THEN w
    ELSE [w EXCEPT !.Instance = TRUE, !.ListenSocket = Null,
                   !.ConnectedSockets = <<>>, !.bIsServerRunning = FALSE,
                   !.serverObjects = @ + 1]

(* ----------------------------- lifecycle ------------------------------ *)

\* Start_Internal without its already-running check.
Start_Internal_NoGuard(w, Port, subsys, build) ==
    IF ~subsys THEN <<w, FALSE>>
    ELSE LET b == TcpSocketBuilder_Build(w, Port, build)
             w1 == [b[1] EXCEPT !.ListenSocket = b[2]]
         IN IF b[2] = Null
            THEN <<w1, FALSE>>
            ELSE <<[w1 EXCEPT !.bIsServerRunning = TRUE], TRUE>>

\* Start_Internal marking the server running before it looks at the socket.
Start_Internal_RunningEarly(w, Port, subsys, build) ==
    IF w.bIsServerRunning THEN <<w, TRUE>>
    ELSE IF ~subsys THEN <<w, FALSE>>
    ELSE LET b == TcpSocketBuilder_Build(w, Port, build)
             w1 == [b[1] EXCEPT !.ListenSocket = b[2], !.bIsServerRunning = TRUE]
         IN <<w1, b[2] # Null>>

\* UEMCPTCPServer::Start_Internal.  subsys: ISocketSubsystem::Get returned a
\* subsystem; build: what the socket builder runs into.
\* Result: <<world, returned value>>.
Start_Internal(w, Port, subsys, build) ==
    IF w.bIsServerRunning THEN <<w, TRUE>>
    ELSE IF ~subsys THEN <<w, FALSE>>
    ELSE LET b == TcpSocketBuilder_Build(w, Port, build)
             w1 == [b[1] EXCEPT !.ListenSocket = b[2]]
         IN IF b[2] = Null
            THEN <<w1, FALSE>>
            ELSE <<[w1 EXCEPT !.bIsServerRunning = TRUE], TRUE>>

\* ISocketSubsystem::Get(PLATFORM_SOCKETSUBSYSTEM)->DestroySocket(h).  subsys:
\* Get returns a subsystem; when it returns nullptr the call through it
\* kills the process.
Subsystem_DestroySocket(w, h, subsys) ==
    IF subsys THEN DestroySocket(w, h) ELSE [w EXCEPT !.killed = TRUE]

\* The range-for of Stop_Internal: Close and DestroySocket on every element
\* of the connection list, first to last.
RECURSIVE CloseAll(_, _, _)
CloseAll(w, socks, subsys) ==
    IF socks = <<>> \/ w.killed THEN w
    ELSE CloseAll(Subsystem_DestroySocket(Socket_Close(w, Head(socks)), Head(socks), subsys),
                  Tail(socks), subsys)

\* Stop_Internal without bIsServerRunning = false.
Stop_Internal_StaysRunning(w, subsys) ==
    IF w.killed \/ ~w.bIsServerRunning THEN w
    ELSE LET w1 == CloseAll(w, w.ConnectedSockets, subsys) IN
         IF w1.killed THEN w1
         ELSE LET w2 == [w1 EXCEPT !.ConnectedSockets = <<>>]
                  w3 == IF w2.ListenSocket # Null
                        THEN Subsystem_DestroySocket(Socket_Close(w2, w2.ListenSocket),
                                                     w2.ListenSocket, subsys)
                        ELSE w2
              IN IF w3.killed THEN w3 ELSE [w3 EXCEPT !.ListenSocket = Null]

\* Stop_Internal without ListenSocket = nullptr.
Stop_Internal_KeepsListen(w, subsys) ==
    IF w.killed \/ ~w.bIsServerRunning THEN w
    ELSE LET w1 == CloseAll(w, w.ConnectedSockets, subsys) IN
         IF w1.killed THEN w1
         ELSE LET w2 == [w1 EXCEPT !.ConnectedSockets = <<>>]
                  w3 == IF w2.ListenSocket # Null
                        THEN Subsystem_DestroySocket(Socket_Close(w2, w2.ListenSocket),
                                                     w2.ListenSocket, subsys)
                        ELSE w2
              IN IF w3.killed THEN w3 ELSE [w3 EXCEPT !.bIsServerRunning = FALSE]

\* Stop_Internal without ConnectedSockets.Empty().
Stop_Internal_NoEmpty(w, subsys) ==
    IF w.killed \/ ~w.bIsServerRunning THEN w
    ELSE LET w1 == CloseAll(w, w.ConnectedSockets, subsys) IN
         IF w1.killed THEN w1
         ELSE LET w3 == IF w1.ListenSocket # Null
                        THEN Subsystem_DestroySocket(Socket_Close(w1, w1.ListenSocket),
                                                     w1.ListenSocket, subsys)
                        ELSE w1
              IN IF w3.killed THEN w3
                 ELSE [w3 EXCEPT !.ListenSocket = Null, !.bIsServerRunning = FALSE]

\* UEMCPTCPServer::Stop_Internal.  A process that was killed runs nothing.
Stop_Internal(w, subsys) ==
    IF w.killed \/ ~w.bIsServerRunning THEN w
    ELSE LET w1 == CloseAll(w, w.ConnectedSockets, subsys) IN
         IF w1.killed THEN w1
         ELSE LET w2 == [w1 EXCEPT !.ConnectedSockets = <<>>]
                  w3 == IF w2.ListenSocket # Null
                        THEN Subsystem_DestroySocket(Socket_Close(w2, w2.ListenSocket),
                                                     w2.ListenSocket, subsys)
                        ELSE w2
              IN IF w3.killed THEN w3
                 ELSE [w3 EXCEPT !.ListenSocket = Null, !.bIsServerRunning = FALSE]

\* UEMCPTCPServer::~UEMCPTCPServer, run by Instance.Reset(): Stop_Internal
\* as a fallback, then the object is gone.
Destructor(w, subsys) ==
    LET w1 == Stop_Internal(w, subsys) IN
    IF w1.killed THEN w1
    ELSE [w1 EXCEPT !.Instance = FALSE, !.ListenSocket = Null,
                    !.ConnectedSockets = <<>>, !.bIsServerRunning = FALSE,
                    !.serverObjects = @ - 1]

\* Shutdown with Instance.Release() in place of Instance.Reset(): the
\* pointer is cleared and the object is never destructed (at most
\* MaxHandles objects are leaked this way).
Shutdown_Release(w, subsys) ==
    IF ~w.Instance THEN w
    ELSE LET w1 == Stop_Internal(w, subsys) IN
         IF w1.killed \/ w1.serverObjects > MaxHandles THEN w1
         ELSE [w1 EXCEPT !.Instance = FALSE]

\* UEMCPTCPServer::Shutdown
Shutdown(w, subsys) ==
    IF w.Instance THEN Destructor(Stop_Internal(w, subsys), subsys) ELSE w

\* The static UEMCPTCPServer::Start(Port)
API_Start(w, Port, subsys, build) == Start_Internal(Get(w), Port, subsys, build)

\* The static UEMCPTCPServer::Stop()
API_Stop(w, subsys) == Stop_Internal(Get(w), subsys)

(* -------------------------- command handling -------------------------- *)

\* An FString is the sequence of its characters.
TEXT_spawn_actor == <<"s", "p", "a", "w", "n", "_", "a", "c", "t", "o", "r">>
TEXT_SPAWN_ACTOR == <<"S", "P", "A", "W", "N", "_", "A", "C", "T", "O", "R">>
TEXT_noop == <<"n", "o", "o", "p">>
TEXT_Box == <<"B", "o", "x">>
TEXT_Ghost == <<"G", "h", "o", "s", "t">>
TEXT_a == <<"a">>
TEXT_1c2c3 == <<"1", ",", "2", ",", "3">>
TEXT_empty == <<>>

UpperCase == <<"A", "B", "C", "D", "E", "F", "G", "H", "I", "J", "K", "L", "M",
               "N", "O", "P", "Q", "R", "S", "T", "U", "V", "W", "X", "Y", "Z">>
LowerCase == <<"a", "b", "c", "d", "e", "f", "g", "h", "i", "j", "k", "l", "m",
               "n", "o", "p", "q", "r", "s", "t", "u", "v", "w", "x", "y", "z">>

\* FChar::ToLower
ToLower(c) ==
    IF \E i \in 1..Len(UpperCase) : UpperCase[i] = c
    THEN LowerCase[CHOOSE i \in 1..Len(UpperCase) : UpperCase[i] = c]
    ELSE c

\* FString::operator==, which ignores case.
FString_Equals(a, b) ==
    /\ Len(a) = Len(b)
    /\ \A i \in 1..Len(a) : ToLower(a[i]) = ToLower(b[i])

\* A JSON value is [t |-> type, v |-> payload]; t = "absent" stands for a
\* field the object does not have.
Absent == [t |-> "absent", v |-> 0]
JNull == [t |-> "null", v |-> 0]
JStr(str) == [t |-> "str", v |-> str]
JNum(n) == [t |-> "num", v |-> n]
JArr(elems) == [t |-> "arr", v |-> elems]

\* FString::SanitizeFloat(n, 0) for the whole numbers the messages use.
NumToStr(n) ==
    CASE n = 0 -> <<"0">> [] n = 1 -> <<"1">> [] n = 2 -> <<"2">> [] n = 3 -> <<"3">>
      [] n = 4 -> <<"4">> [] n = 7 -> <<"7">> [] OTHER -> <<"?">>

\* FJsonObject::TryGetStringField on a field: <<found, string>>.  A string
\* yields itself, a number its text; null, arrays and objects yield nothing.
TryGetString(val) ==
    CASE val.t = "str" -> <<TRUE, val.v>>
      [] val.t = "num" -> <<TRUE, NumToStr(val.v)>>
      [] OTHER -> <<FALSE, TEXT_empty>>

\* FJsonValue::AsNumber: the number itself; a value that is no number is
\* reported in the log and read as 0.
AsNumber(val) == IF val.t = "num" THEN val.v ELSE 0

\* A received text, as far as HandleCommand looks at it:
\*   json        "invalid" (no JSON), "nonobject" (JSON, root not an object), "object"
\*   intent      the root's "intent" field
\*   parameters  "absent", "nonobject" or "object"
\*   class, location   the fields of the parameters object
Msg(json, intent, parameters, class, location) ==
    [json |-> json, intent |-> intent, parameters |-> parameters,
     class |-> class, location |-> location]

Loc123 == JArr(<<JNum(1), JNum(2), JNum(3)>>)

Messages ==
    << Msg("invalid", Absent, "absent", Absent, Absent),
       Msg("nonobject", Absent, "absent", Absent, Absent),
       Msg("object", Absent, "absent", Absent, Absent),
       Msg("object", JNull, "absent", Absent, Absent),
       Msg("object", JNum(7), "absent", Absent, Absent),
       Msg("object", JStr(TEXT_empty), "absent", Absent, Absent),
       Msg("object", JStr(TEXT_noop), "absent", Absent, Absent),
       Msg("object", JStr(TEXT_noop), "object", JStr(TEXT_Box), Loc123),
       Msg("object", JStr(TEXT_spawn_actor), "absent", Absent, Absent),
       Msg("object", JStr(TEXT_spawn_actor), "nonobject", Absent, Absent),
       Msg("object", JStr(TEXT_spawn_actor), "object", Absent, Loc123),
       Msg("object", JStr(TEXT_spawn_actor), "object", JStr(TEXT_Box), Absent),
       Msg("object", JStr(TEXT_spawn_actor), "object", JStr(TEXT_Box), JStr(TEXT_1c2c3)),
       Msg("object", JStr(TEXT_spawn_actor), "object", JStr(TEXT_Box), JArr(<<JNum(1), JNum(2)>>)),
       Msg("object", JStr(TEXT_spawn_actor), "object", JStr(TEXT_Box),
           JArr(<<JNum(1), JNum(2), JNum(3), JNum(4)>>)),
       Msg("object", JStr(TEXT_spawn_actor), "object", JStr(TEXT_Box),
           JArr(<<JNum(1), JStr(TEXT_a), JNum(3)>>)),
       Msg("object", JStr(TEXT_spawn_actor), "object", JStr(TEXT_Box), Loc123),
       Msg("object", JStr(TEXT_spawn_actor), "object", JStr(TEXT_Ghost), Loc123),
       Msg("object", JStr(TEXT_spawn_actor), "object", JNum(7), Loc123),
       Msg("object", JStr(TEXT_SPAWN_ACTOR), "object", JStr(TEXT_Box), Loc123) >>

MsgIds == 1..Len(Messages)

\* Class names FindObject<UClass> finds in the host.
KnownClasses == {TEXT_Box}

\* What line 248 finds when it evaluates GEngine->GetWorldContexts()[0].World().
EngineStates == {"GEngineNull", "NoWorldContexts", "NoWorld", "World"}

\* The outcomes in which HandleCommand does not return: the process is killed
\* by the null dereference or by the failed range check of operator[].
CrashOutcomes == {"crash_null_gengine", "crash_no_world_context"}

ZeroRotator == <<0, 0, 0>>

Call(fn, cls, loc, rot) == [fn |-> fn, cls |-> cls, loc |-> loc, rot |-> rot]

Result(outcome, calls) == [outcome |-> outcome, calls |-> calls]

\* The spawn_actor branch of HandleCommand.  engine: what GEngine and its
\* world contexts are when line 248 reads them; spawnOK: SpawnActor returns
\* an actor.
HandleSpawnActor(m, engine, spawnOK) ==
    IF m.parameters # "object" THEN Result("missing_parameters", <<>>)
    ELSE LET cls == TryGetString(m.class) IN
    IF ~cls[1] THEN Result("missing_class", <<>>)
    ELSE IF m.location.t # "arr" \/ Len(m.location.v) # 3
    THEN Result("invalid_location", <<>>)
    ELSE LET Location == << AsNumber(m.location.v[1]), AsNumber(m.location.v[2]),
                            AsNumber(m.location.v[3]) >>
             find == Call("FindObject", cls[2], <<>>, <<>>)
             spawn == Call("SpawnActor", cls[2], Location, ZeroRotator)
         IN IF cls[2] \notin KnownClasses THEN Result("class_not_found", <<find>>)
            ELSE IF engine = "GEngineNull" THEN Result("crash_null_gengine", <<find>>)
            ELSE IF engine = "NoWorldContexts"
            THEN Result("crash_no_world_context", <<find>>)
            ELSE IF engine = "NoWorld" THEN Result("no_world", <<find>>)
            ELSE IF spawnOK THEN Result("spawned", <<find, spawn>>)
            ELSE Result("spawn_failed", <<find, spawn>>)

\* The answers of the host that HandleCommand can come to ask for: <<engine,
\* spawnOK>>.  A message that does not get as far as line 248 reads neither,
\* so one pair stands for all; SpawnActor is called only in a world.
HostAnswers(m) ==
    IF HandleSpawnActor(m, "NoWorld", FALSE).outcome = "no_world"
    THEN {<<"GEngineNull", FALSE>>, <<"NoWorldContexts", FALSE>>, <<"NoWorld", FALSE>>,
          <<"World", FALSE>>, <<"World", TRUE>>}
    ELSE {<<"World", TRUE>>}

\* The intent comparison of HandleCommand: Intent == TEXT("spawn_actor").
IsSpawnActor(intent) == FString_Equals(intent, TEXT_spawn_actor)

\* HandleCommand running the spawn_actor branch for every intent.
HandleCommand_FallThrough(m, engine, spawnOK) ==
    IF m.json # "object" THEN Result("parse_error", <<>>)
    ELSE LET intent == TryGetString(m.intent) IN
    IF ~intent[1] THEN Result("missing_intent", <<>>)
    ELSE HandleSpawnActor(m, engine, spawnOK)

\* HandleCommand going on to the spawn_actor branch when there is no intent.
HandleCommand_DefaultIntent(m, engine, spawnOK) ==
    IF m.json # "object" THEN Result("parse_error", <<>>)
    ELSE LET intent == TryGetString(m.intent) IN
    IF ~intent[1] \/ IsSpawnActor(intent[2]) THEN HandleSpawnActor(m, engine, spawnOK)
    ELSE Result("unknown_intent", <<>>)

\* HandleCommand(JsonString): what it logs and which host calls it makes.
HandleCommand(m, engine, spawnOK) ==
    IF m.json # "object" THEN Result("parse_error", <<>>)
    ELSE LET intent == TryGetString(m.intent) IN
    IF ~intent[1] THEN Result("missing_intent", <<>>)
    ELSE IF IsSpawnActor(intent[2]) THEN HandleSpawnActor(m, engine, spawnOK)
    ELSE Result("unknown_intent", <<>>)

\* HandleCommand on every message of Messages under every answer of the
\* host, worked out once.
CommandResults ==
    [m \in MsgIds |->
        [host \in HostAnswers(Messages[m]) |->
            HandleCommand(Messages[m], host[1], host[2])]]

(* -------------------------------- Tick -------------------------------- *)

AcceptEntry == [op |-> "accept", h |-> Null]
PollEntry(h) == [op |-> "poll", h |-> h]

\* HandleNewConnection accepting a second connection after the first.
HandleNewConnection_AcceptAll(w, queryOK, bHasPendingConnection, acceptOK) ==
    LET w0 == Use(w, w.ListenSocket)
        Add(v) == LET h == v.nextHandle
                  IN [v EXCEPT !.nextHandle = @ + 1,
                               !.kind[h] = "client",
                               !.connState[h] = "Connected",
                               !.ConnectedSockets = Append(@, h)]
    IN IF queryOK /\ bHasPendingConnection /\ acceptOK /\ w0.nextHandle <= MaxHandles
       THEN IF w0.nextHandle + 1 <= MaxHandles THEN Add(Add(w0)) ELSE Add(w0)
       ELSE w0

\* UEMCPTCPServer::HandleNewConnection.  queryOK: HasPendingConnection
\* succeeded; bHasPendingConnection: what it reported; acceptOK: Accept
\* returned a socket.
HandleNewConnection(w, queryOK, bHasPendingConnection, acceptOK) ==
    LET w0 == Use(w, w.ListenSocket) IN
    IF queryOK /\ bHasPendingConnection /\ acceptOK /\ w0.nextHandle <= MaxHandles
    THEN LET h == w0.nextHandle
         IN [w0 EXCEPT !.nextHandle = @ + 1,
                       !.kind[h] = "client",
                       !.connState[h] = "Connected",
                       !.ConnectedSockets = Append(@, h)]
    ELSE w0

\* Tick_Internal without its running check.
Tick_Begin_NoGuard(w, queryOK, bHasPendingConnection, acceptOK) ==
    LET w1 == HandleNewConnection(w, queryOK, bHasPendingConnection, acceptOK)
    IN [w |-> w1, entered |-> TRUE, i |-> Len(w1.ConnectedSockets)]

\* Tick_Internal starting its loop at Num() - 2.
Tick_Begin_OffByOne(w, queryOK, bHasPendingConnection, acceptOK) ==
    IF ~w.bIsServerRunning
    THEN [w |-> w, entered |-> FALSE, i |-> 0]
    ELSE LET w1 == HandleNewConnection(w, queryOK, bHasPendingConnection, acceptOK)
             n == Len(w1.ConnectedSockets)
         IN [w |-> w1, entered |-> TRUE, i |-> IF n >= 1 THEN n - 1 ELSE 0]

\* Tick_Internal up to the first evaluation of the loop condition: the
\* running check, HandleNewConnection and i = ConnectedSockets.Num() - 1.
\* entered: HandleNewConnection ran; i: the loop variable, 1-based.
Tick_Begin(w, queryOK, bHasPendingConnection, acceptOK) ==
    IF ~w.bIsServerRunning
    THEN [w |-> w, entered |-> FALSE, i |-> 0]
    ELSE LET w1 == HandleNewConnection(w, queryOK, bHasPendingConnection, acceptOK)
         IN [w |-> w1, entered |-> TRUE, i |-> Len(w1.ConnectedSockets)]

\* One pass of the while loop of HandleData(sock) for which HasPendingData
\* reported Size bytes: Recv of up to Min(Size, 65507) bytes, of which Read
\* arrive.
HandleData_Recv(w, sock, Read) ==
    [Use(w, sock) EXCEPT !.pending[sock] = @ - Read]

\* FSocket::GetConnectionState() on sock.  A connection that is not up is
\* reported as SCS_NotConnected or, with err, as SCS_ConnectionError.
GetConnectionState(w, sock, err) ==
    IF w.connState[sock] = "Connected" THEN "Connected"
    ELSE IF err THEN "ConnectionError" ELSE "NotConnected"

\* HandleData(sock) from the end of the while loop: the connection state
\* check and the removal of a socket that is not connected.
HandleData_Disconnect(w, sock, subsys, err) ==
    LET w0 == Use(w, sock) IN
    IF GetConnectionState(w0, sock, err) # "Connected"
    THEN Subsystem_DestroySocket([w0 EXCEPT !.ConnectedSockets = TArray_Remove(@, sock)],
                                 sock, subsys)
    ELSE w0

\* Where the host thread is after the calls that made w: at next, or
\* nowhere, the process having been killed.
AfterCall(w, next) == IF w.killed THEN "crashed" ELSE next

\* Recv(ReceivedData, Size, Read) returned Read bytes on sock.
RecvEvent(sock, Read) == [ev |-> "Recv", sock |-> sock, n |-> Read]

\* HandleCommand was called with the n bytes just received on sock.
CommandEvent(sock, n) == [ev |-> "HandleCommand", sock |-> sock, n |-> n]

\* The loop body calling HandleCommand before Recv.
HandleData_Pass_CommandFirst(sock, Read) ==
    IF Read > 0
    THEN <<CommandEvent(sock, Read), RecvEvent(sock, Read)>>
    ELSE <<RecvEvent(sock, Read)>>

\* The loop body without the test of Read.
HandleData_Pass_Always(sock, Read) ==
    <<RecvEvent(sock, Read), CommandEvent(sock, Read)>>

\* The body of the while loop of HandleData(sock): Recv, then, if (Read > 0),
\* HandleCommand on exactly the Read bytes of this Recv.
HandleData_Pass(sock, Read) ==
    IF Read > 0
    THEN <<RecvEvent(sock, Read), CommandEvent(sock, Read)>>
    ELSE <<RecvEvent(sock, Read)>>

\* The HandleCommand calls among the events of a pass.
Commands(pass) == SelectSeq(pass, LAMBDA e : e.ev = "HandleCommand")

\* Accept() returned the socket sock.
AcceptEvent(sock) == [ev |-> "Accept", sock |-> sock, n |-> 0]

\* The Accept calls of HandleNewConnection that returned a socket, read off
\* the list before and after it.
HandleNewConnection_Calls(before, after) ==
    [k \in 1..(Len(after) - Len(before)) |-> AcceptEvent(after[Len(before) + k])]

\* The step handed no message to HandleCommand.
NoCommand == lastMsg' = 0 /\ lastResult' = NoResult

\* The static UEMCPTCPServer::Tick() and FUEMCPModule::Tick, which calls it.
TickEnter(queryOK, bHasPendingConnection, acceptOK) ==
    /\ pc = "idle"
    /\ LET t == Tick_Begin(Get(World), queryOK, bHasPendingConnection, acceptOK)
       IN /\ Commit(t.w)
          /\ idx' = t.i
          /\ pc' = IF t.i >= 1 THEN "HandleData" ELSE "idle"
          /\ IF t.entered
             THEN /\ tickList' = t.w.ConnectedSockets
                  /\ tickLog' = <<AcceptEntry>>
             ELSE UNCHANGED tickVars
          /\ passLog' = HandleNewConnection_Calls(Get(World).ConnectedSockets,
                                                  t.w.ConnectedSockets)
    /\ lastOp' = "Tick"
    /\ startResult' = FALSE
    /\ NoCommand

Tick ==
    /\ \E queryOK, bHasPendingConnection, acceptOK \in BOOLEAN :
          TickEnter(queryOK, bHasPendingConnection, acceptOK)
    /\ UNCHANGED modVars

ModuleTick ==
    /\ TickRegistered
    /\ \E queryOK, bHasPendingConnection, acceptOK \in BOOLEAN :
          TickEnter(queryOK, bHasPendingConnection, acceptOK)
    /\ UNCHANGED modVars

\* Where the host thread is after HandleCommand: back in the loop of
\* HandleData, or nowhere, the process having been killed.
AfterCommand(result) ==
    IF result.outcome \in CrashOutcomes THEN "crashed" ELSE "HandleData"

\* The socket HandleData is working on.
CurSocket == ConnectedSockets[idx]

\* while (ClientSocket->HasPendingData(Size)) { Recv; HandleCommand }
HandleDataLoop ==
    /\ pc = "HandleData"
    /\ pending[CurSocket] > 0
    /\ \E Read \in 0..Min(pending[CurSocket], MaxRecvBuffer) :
          /\ Commit(HandleData_Recv(World, CurSocket, Read))
          /\ passLog' = HandleData_Pass(CurSocket, Read)
          /\ IF Commands(HandleData_Pass(CurSocket, Read)) # <<>>
             THEN \E m \in MsgIds : \E host \in DOMAIN CommandResults[m] :
                     /\ lastMsg' = m
                     /\ lastResult' = CommandResults[m][host]
                     /\ pc' = AfterCommand(CommandResults[m][host])
             ELSE NoCommand /\ pc' = pc
    /\ lastOp' = "HandleDataLoop"
    /\ startResult' = FALSE
    /\ UNCHANGED <<idx, tickVars, modVars>>

\* The end of HandleData stepping i back once more after a removal.
HandleDataEnd_SkipAfterRemove ==
    /\ pc = "HandleData"
    /\ pending[CurSocket] = 0
    /\ \E subsys, err \in BOOLEAN :
          LET w == HandleData_Disconnect(World, CurSocket, subsys, err)
              nxt == IF connState[CurSocket] # "Connected" /\ idx >= 2
                     THEN idx - 2 ELSE idx - 1
          IN /\ Commit(w)
             /\ pc' = AfterCall(w, IF nxt >= 1 THEN "HandleData" ELSE "idle")
             /\ IF w.killed
                THEN UNCHANGED <<idx, tickLog>>
                ELSE /\ tickLog' = Append(tickLog, PollEntry(CurSocket))
                     /\ idx' = nxt
    /\ lastOp' = "HandleDataEnd"
    /\ startResult' = FALSE
    /\ NoCommand
    /\ passLog' = <<>>
    /\ UNCHANGED <<tickList, modVars>>

\* The loop condition fails: the disconnection check, then --i and the next
\* HandleData call or the end of Tick_Internal.  subsys: the socket
\* subsystem is there when line 188 asks for it.  err: a connection that is
\* not up is reported as SCS_ConnectionError.
HandleDataEnd ==
    /\ pc = "HandleData"
    /\ pending[CurSocket] = 0
    /\ \E subsys, err \in BOOLEAN :
          LET w == HandleData_Disconnect(World, CurSocket, subsys, err)
          IN /\ Commit(w)
             /\ pc' = AfterCall(w, IF idx - 1 >= 1 THEN "HandleData" ELSE "idle")
             /\ IF w.killed
                THEN UNCHANGED <<idx, tickLog>>
                ELSE /\ tickLog' = Append(tickLog, PollEntry(CurSocket))
                     /\ idx' = idx - 1
    /\ lastOp' = "HandleDataEnd"
    /\ startResult' = FALSE
    /\ NoCommand
    /\ passLog' = <<>>
    /\ UNCHANGED <<tickList, modVars>>

(* ----------------------- calls made by the host ----------------------- *)

\* A step that is not part of a Tick leaves the Tick records alone and
\* handles no message.
Quiet == /\ NoCommand
         /\ passLog' = <<>>
         /\ UNCHANGED <<idx, tickVars>>

\* UEMCPTCPServer::Start(Port) called directly.
Start ==
    /\ pc = "idle"
    /\ \E Port \in Ports, subsys \in BOOLEAN, build \in BuildOutcomes :
          LET r == API_Start(World, Port, subsys, build)
          IN Commit(r[1]) /\ startResult' = r[2]
    /\ lastOp' = "Start"
    /\ pc' = "idle"
    /\ Quiet
    /\ UNCHANGED modVars

\* UEMCPTCPServer::Stop() called directly.  subsys: the socket subsystem is
\* there when Stop_Internal asks for it.
Stop ==
    /\ pc = "idle"
    /\ \E subsys \in BOOLEAN :
          LET w == API_Stop(World, subsys)
          IN Commit(w) /\ pc' = AfterCall(w, "idle")
    /\ lastOp' = "Stop"
    /\ startResult' = FALSE
    /\ Quiet
    /\ UNCHANGED modVars

\* FUEMCPModule::StartupModule.  gengine: GEngine is set.  AddRaw puts one
\* more binding on OnWorldTick and its handle overwrites TickDelegateHandle,
\* so a binding the handle named until now can no longer be removed.
StartupModule ==
    /\ pc = "idle"
    /\ ~ModuleLoaded
    /\ \E gengine, subsys \in BOOLEAN, build \in BuildOutcomes :
          LET r == API_Start(World, DefaultPort, subsys, build)
          IN /\ Commit(r[1])
             /\ startResult' = r[2]
             /\ TickHandleBound' = (TickHandleBound \/ gengine)
             /\ StaleTickBinding' = (StaleTickBinding \/ (gengine /\ TickHandleBound))
    /\ ModuleLoaded' = TRUE
    /\ lastOp' = "StartupModule"
    /\ pc' = "idle"
    /\ Quiet

\* FUEMCPModule::ShutdownModule.  A process killed inside Shutdown() does
\* not get to the rest.  gengine: GEngine is set.  Remove(TickDelegateHandle)
\* takes the one binding the handle names off OnWorldTick, if it is still
\* there; the bindings of earlier AddRaw calls stay.
ShutdownModule ==
    /\ pc = "idle"
    /\ ModuleLoaded
    /\ \E subsys, gengine \in BOOLEAN :
          LET w == Shutdown(World, subsys)
          IN /\ Commit(w)
             /\ pc' = AfterCall(w, "idle")
             /\ IF w.killed
                THEN UNCHANGED modVars
                ELSE /\ TickHandleBound' = (TickHandleBound /\ ~gengine)
                     /\ UNCHANGED StaleTickBinding
                     /\ ModuleLoaded' = FALSE
    /\ lastOp' = "ShutdownModule"
    /\ startResult' = FALSE
    /\ Quiet

(* ----------------------------- the clients ---------------------------- *)

\* A connection the server holds and the client can still use.
LiveClient(h) == kind[h] = "client" /\ IsOpen(h) /\ connState[h] = "Connected"

\* A connected client sends n more bytes.
ClientSend(h) ==
    /\ pc # "crashed"
    /\ LiveClient(h)
    /\ pending[h] < MaxPending
    /\ \E n \in 1..(MaxPending - pending[h]) :
          pending' = [pending EXCEPT ![h] = @ + n]
    /\ lastOp' = "ClientSend"
    /\ startResult' = FALSE
    /\ NoCommand
    /\ passLog' = <<>>
    /\ UNCHANGED <<srvVars, nextHandle, kind, closed, destroyed, connState,
                   misuse, tickVars, modVars, pc, idx>>

\* A client goes away or its connection breaks; what it sent stays
\* readable.  Which of the two it was shows when the server asks for the
\* connection state, once, in HandleData.
ClientDisconnect(h) ==
    /\ pc # "crashed"
    /\ LiveClient(h)
    /\ connState' = [connState EXCEPT ![h] = "NotConnected"]
    /\ lastOp' = "ClientDisconnect"
    /\ startResult' = FALSE
    /\ NoCommand
    /\ passLog' = <<>>
    /\ UNCHANGED <<srvVars, nextHandle, kind, closed, destroyed, pending,
                   misuse, tickVars, modVars, pc, idx>>

(* --------------------------- specification ---------------------------- *)

Next ==
    \/ Start
    \/ Stop
    \/ Tick
    \/ ModuleTick
    \/ HandleDataLoop
    \/ HandleDataEnd
    \/ StartupModule
    \/ ShutdownModule
    \/ \E h \in Handles : ClientSend(h)
    \/ \E h \in Handles : ClientDisconnect(h)

Spec == Init /\ [][Next]_vars

\* The host thread does not stop in the middle of a Tick.
FairSpec == Spec /\ WF_vars(HandleDataLoop \/ HandleDataEnd)

TypeOK ==
    /\ Instance \in BOOLEAN
    /\ serverObjects \in 0..1
    /\ TickHandleBound \in BOOLEAN /\ StaleTickBinding \in BOOLEAN
    /\ ModuleLoaded \in BOOLEAN
    /\ ListenSocket \in Handles \cup {Null}
    /\ ConnectedSockets \in Seq(Handles)
    /\ bIsServerRunning \in BOOLEAN
    /\ pc \in {"idle", "HandleData", "crashed"}
    /\ idx \in 0..MaxHandles
    /\ pc = "HandleData" => idx \in 1..Len(ConnectedSockets)
    /\ nextHandle \in 1..(MaxHandles + 1)
    /\ \A h \in Handles : pending[h] \in 0..MaxPending

(* ------------------------------ lifecycle claims ---------------------- *)

StartOps == {"Start", "StartupModule"}
StopOps == {"Stop", "ShutdownModule"}

\* Listening sockets that were created and not destroyed.
LiveListen == { h \in Handles : kind[h] = "listen" /\ destroyed[h] = 0 }

\* Sockets of any kind that were created and not destroyed.
LiveSockets == { h \in Handles : kind[h] # "none" /\ destroyed[h] = 0 }

\* The fields the header groups as "Server state".
serverState == <<ListenSocket, ConnectedSockets, bIsServerRunning>>

\* C1: Start on a running server returns success and changes neither the
\* server state nor any socket; whatever the number of Start calls, at most
\* one listening endpoint is created and not destroyed, and a running server
\* holds exactly that one.
C1_StartWhileRunningIsNoOp ==
    /\ [][ (lastOp' \in StartOps /\ bIsServerRunning)
             => (startResult' = TRUE /\ UNCHANGED <<serverState, sockVars>>) ]_vars
    /\ [](Cardinality(LiveListen) <= 1)
    /\ [](bIsServerRunning => LiveListen = {ListenSocket})

\* C1 witness: Start has just returned on a server that holds a connection,
\* so it was called while the server was running.
C1_Witness ==
    lastOp = "Start" /\ startResult /\ bIsServerRunning /\ Len(ConnectedSockets) >= 1

\* C2: a Start that returns failure leaves a server that is not running, has
\* no listening socket, no connection and no socket that was created and
\* not destroyed; and Start returns success exactly when the server runs
\* afterwards.
C2_FailedStartLeavesNothing ==
    lastOp \in StartOps =>
        /\ startResult = bIsServerRunning
        /\ ~startResult =>
              /\ ~bIsServerRunning
              /\ ListenSocket = Null
              /\ ConnectedSockets = <<>>
              /\ LiveSockets = {}

\* C2 witness: Start failed after the builder had created a socket.
C2_Witness ==
    /\ lastOp = "Start" /\ ~startResult
    /\ \E h \in Handles : kind[h] = "listen" /\ destroyed[h] = 1 /\ closed[h] = 0

\* C3: Stop (or Shutdown) on a running server closes and destroys every
\* socket of the connection list and the listening socket, empties the list,
\* clears the listening socket and marks the server not running; and no
\* client socket is left undestroyed outside the connection list or while
\* the server is not running.
C3_StopReleasesEverything ==
    /\ [][ (lastOp' \in StopOps /\ bIsServerRunning) =>
             /\ \A h \in Range(ConnectedSockets) :
                   /\ closed[h] = 0 /\ destroyed[h] = 0
                   /\ closed'[h] = 1 /\ destroyed'[h] = 1
             /\ ConnectedSockets' = <<>>
             /\ ListenSocket # Null
             /\ closed'[ListenSocket] = 1 /\ destroyed'[ListenSocket] = 1
             /\ ListenSocket' = Null
             /\ ~bIsServerRunning' ]_vars
    /\ [](\A h \in Handles :
            (kind[h] = "client" /\ destroyed[h] = 0) =>
                (bIsServerRunning /\ h \in Range(ConnectedSockets)))

\* C4: Stop (or Shutdown) on a server that is not running changes neither
\* the server state nor any socket, and over every run each socket handle is
\* closed at most once and destroyed at most once.
C4_StopIdempotent ==
    /\ [][ (lastOp' \in StopOps /\ ~bIsServerRunning)
             => UNCHANGED <<serverState, sockVars>> ]_vars
    /\ [](\A h \in Handles : closed[h] <= 1 /\ destroyed[h] <= 1)

\* C4 witness: Stop has run although no socket was ever created, that is,
\* without any successful Start before it.
C4_Witness ==
    lastOp = "Stop" /\ nextHandle = 1 /\ Instance /\ ~bIsServerRunning

\* C5: Tick on a server that is not running makes no socket call, handles
\* no message and leaves the server state, every socket and the record of
\* the last Tick as they were.
C5_TickNotRunningIsNoOp ==
    [][ (lastOp' = "Tick" /\ ~bIsServerRunning) =>
          /\ UNCHANGED <<serverState, sockVars, tickVars>>
          /\ pc' = "idle"
          /\ lastMsg' = 0 ]_vars

\* C5 witness: the module is loaded with its tick registered, no socket was
\* ever created (its Start failed) and a Tick has just run.
C5_Witness ==
    /\ lastOp = "Tick" /\ ModuleLoaded /\ TickRegistered
    /\ ~bIsServerRunning /\ nextHandle = 1

(* -------------------------------- Tick claims ------------------------- *)

\* C6: every Tick returns: once the host thread is inside the loops of
\* Tick_Internal it gets back to the caller, whatever the clients do.
C6_TickTerminates == (pc = "HandleData") ~> (pc = "idle")

\* The sockets HandleData has been called on and has returned from in the
\* last Tick, in call order.
Polled == [k \in 1..(Len(tickLog) - 1) |-> tickLog[k + 1].h]

\* s is the beginning of t.
IsPrefix(s, t) == Len(s) <= Len(t) /\ \A k \in 1..Len(s) : s[k] = t[k]

\* The Tick the records are about has returned.
TickOver == pc = "idle"

\* The accept attempt comes first and happens once.
AcceptFirst ==
    tickLog # <<>> =>
        /\ tickLog[1].op = "accept"
        /\ \A k \in 2..Len(tickLog) : tickLog[k].op = "poll"

\* C7 as stated: a Tick makes one accept attempt and then polls every
\* connection of the list in list order.
C7_PollsInListOrder ==
    /\ AcceptFirst
    /\ IsPrefix(Polled, tickList)
    /\ (TickOver /\ tickLog # <<>>) => Polled = tickList

\* C7 as amended: a Tick makes one accept attempt and then polls every
\* connection of the list once, from the last element of the list to the
\* first (the connection added last is polled first).
C7_PollsInReverseListOrder ==
    /\ AcceptFirst
    /\ IsPrefix(Polled, Reverse(tickList))
    /\ (TickOver /\ tickLog # <<>>) => Polled = Reverse(tickList)

\* C7 witness: a Tick that polled two connections has returned.
C7_Witness ==
    TickOver /\ lastOp = "HandleDataEnd" /\ Len(tickList) = 2 /\ Len(tickLog) = 3

\* C8: the disconnection check of a poll removes the polled connection and
\* destroys its socket exactly when its state is not Connected; the list
\* then is the old list without that one element, otherwise list and
\* sockets are as before; no socket is destroyed twice and no destroyed
\* socket stays in the list.
C8_DisconnectRemovesOnce ==
    /\ [][ lastOp' = "HandleDataEnd" =>
             IF connState[CurSocket] # "Connected"
             THEN /\ Len(ConnectedSockets') = Len(ConnectedSockets) - 1
                  /\ ConnectedSockets' =
                        SelectSeq(ConnectedSockets, LAMBDA x : x # CurSocket)
                  /\ destroyed[CurSocket] = 0
                  /\ destroyed' = [destroyed EXCEPT ![CurSocket] = 1]
             ELSE UNCHANGED <<ConnectedSockets, destroyed, closed>> ]_vars
    /\ [](\A h \in Handles : destroyed[h] <= 1)
    /\ [](\A h \in Range(ConnectedSockets) : destroyed[h] = 0)

(* ------------------------------ command claims ------------------------ *)

\* C9: a step that hands a message to HandleCommand, whatever the outcome,
\* leaves the connection list and the running flag alone and does not end
\* the process; a connection leaves the list only in the disconnection
\* check of its own poll, when its state is not Connected, or in
\* Stop/Shutdown; and the server stops running only in Stop/Shutdown.
C9_MessageFailureKeepsConnection ==
    /\ [][ lastMsg' # 0 => (UNCHANGED serverState /\ pc' # "crashed") ]_vars
    /\ [][ (Range(ConnectedSockets) \ Range(ConnectedSockets') # {}) =>
             \/ lastOp' \in StopOps
             \/ /\ lastOp' = "HandleDataEnd"
                /\ connState[CurSocket] # "Connected"
                /\ Range(ConnectedSockets) \ Range(ConnectedSockets') = {CurSocket} ]_vars
    /\ [][ (bIsServerRunning /\ ~bIsServerRunning') => lastOp' \in StopOps ]_vars

\* The message handled last carries an intent.
HasIntent ==
    /\ lastMsg # 0
    /\ Messages[lastMsg].json = "object"
    /\ TryGetString(Messages[lastMsg].intent)[1]

\* The message handled last carries an intent and its text is not
\* spawn_actor, character for character.
UnregisteredIntent ==
    /\ HasIntent
    /\ TryGetString(Messages[lastMsg].intent)[2] # TEXT_spawn_actor

\* The message handled last carries an intent that differs from
\* spawn_actor in more than the case of its letters.
OtherIntent ==
    /\ HasIntent
    /\ ~FString_Equals(TryGetString(Messages[lastMsg].intent)[2], TEXT_spawn_actor)

\* C10 as stated: a command whose intent is anything other than spawn_actor
\* ends as an unknown intent and calls neither FindObject nor SpawnActor,
\* whatever its parameters.
C10_UnknownIntentNoCalls ==
    UnregisteredIntent =>
        /\ lastResult.outcome = "unknown_intent"
        /\ lastResult.calls = <<>>

\* C10 as amended: a command whose intent differs from spawn_actor in more
\* than letter case ends as an unknown intent and calls neither FindObject
\* nor SpawnActor, whatever its parameters.
C10_OtherIntentNoCalls ==
    OtherIntent =>
        /\ lastResult.outcome = "unknown_intent"
        /\ lastResult.calls = <<>>

\* C10 witness: a noop command with well-formed spawn parameters was handled.
C10_Witness ==
    /\ OtherIntent
    /\ Messages[lastMsg].parameters = "object"
    /\ Messages[lastMsg].class.t = "str"

\* The message handled last is a spawn_actor command with a parameters
\* object that has a class.
SpawnWithClass ==
    /\ lastMsg # 0
    /\ Messages[lastMsg].json = "object"
    /\ Messages[lastMsg].intent.t = "str"
    /\ Messages[lastMsg].intent.v = TEXT_spawn_actor
    /\ Messages[lastMsg].parameters = "object"
    /\ TryGetString(Messages[lastMsg].class)[1]

\* The location of the message handled last is an array of exactly three numbers.
LocationIs3Numbers ==
    /\ Messages[lastMsg].location.t = "arr"
    /\ Len(Messages[lastMsg].location.v) = 3
    /\ \A k \in 1..3 : Messages[lastMsg].location.v[k].t = "num"

\* The location of the message handled last is an array.
LocationIsArray == Messages[lastMsg].location.t = "arr"

\* The host calls of the command handled last that went to fn.
CallsTo(fn) == SelectSeq(lastResult.calls, LAMBDA c : c.fn = fn)

\* C11: a spawn_actor command whose location has fewer or more than three
\* elements, or an element that is no number, fails as an invalid location
\* and calls neither FindObject nor SpawnActor.
C11_BadLocationNoCalls ==
    (SpawnWithClass /\ LocationIsArray /\ ~LocationIs3Numbers) =>
        /\ lastResult.outcome = "invalid_location"
        /\ lastResult.calls = <<>>

\* C12: a spawn_actor command with a class the host knows and a
\* location of three numbers calls SpawnActor exactly once, with that class,
\* the three numbers in order and the zero rotation.
C12_ValidSpawnCallsCreateOnce ==
    (SpawnWithClass /\ LocationIs3Numbers
       /\ TryGetString(Messages[lastMsg].class)[2] \in KnownClasses) =>
        CallsTo("SpawnActor") =
            << Call("SpawnActor", Messages[lastMsg].class.v,
                    << Messages[lastMsg].location.v[1].v,
                       Messages[lastMsg].location.v[2].v,
                       Messages[lastMsg].location.v[3].v >>, ZeroRotator) >>

\* The message handled last is malformed: no JSON, no JSON object, no
\* intent that reads as a string, or an empty intent.
Malformed ==
    /\ lastMsg # 0
    /\ \/ Messages[lastMsg].json # "object"
       \/ Messages[lastMsg].intent.t # "str"
       \/ Messages[lastMsg].intent.v = TEXT_empty

\* C13: a malformed message is dropped before any handler runs: it ends as
\* a parse error, a missing intent or an unknown intent and makes no host call.
C13_MalformedNotDispatched ==
    Malformed =>
        /\ lastResult.outcome \in {"parse_error", "missing_intent", "unknown_intent"}
        /\ lastResult.calls = <<>>

\* C13 witness: a JSON object without an intent was received and dropped.
C13_Witness ==
    /\ Malformed
    /\ Messages[lastMsg].json = "object"
    /\ Messages[lastMsg].intent.t = "absent"
    /\ lastResult.outcome = "missing_intent"

(* --------------------------- use after release ------------------------ *)

\* C14: no socket call is made on a null handle or on a handle that was
\* closed or destroyed, on any run of Start, Tick, Stop and Shutdown; the
\* socket HandleData is working on and, as long as the process lives,
\* every socket of the list is open.
C14_NoUseAfterRelease ==
    /\ ~misuse
    /\ pc = "HandleData" => IsOpen(CurSocket)
    /\ pc # "crashed" =>
          \A h \in Range(ConnectedSockets) : closed[h] = 0 /\ kind[h] = "client"

\* C14 witness: a Tick polled a connection after another connection, which
\* was not on the list when that Tick began, had been destroyed.
C14_Witness ==
    /\ lastOp = "HandleDataEnd"
    /\ Len(tickLog) >= 2
    /\ \E h \in Handles :
          /\ kind[h] = "client" /\ destroyed[h] = 1 /\ closed[h] = 0
          /\ h \notin Range(tickList)

(* ------------------------------- framing ------------------------------ *)

\* C15: on a connection every read that brought data is handled before
\* the next read begins: in the calls of a step, a Recv that returned bytes
\* is followed at once by HandleCommand on the same socket, HandleCommand
\* runs only right after such a Recv, and nothing is left unhandled when
\* the step ends.
C15_HandledInArrivalOrder ==
    /\ \A k \in 1..Len(passLog) :
          (passLog[k].ev = "Recv" /\ passLog[k].n > 0) =>
              /\ k < Len(passLog)
              /\ passLog[k + 1].ev = "HandleCommand"
              /\ passLog[k + 1].sock = passLog[k].sock
    /\ \A k \in 1..Len(passLog) :
          passLog[k].ev = "HandleCommand" =>
              /\ k > 1
              /\ passLog[k - 1].ev = "Recv"
              /\ passLog[k - 1].n > 0
              /\ passLog[k - 1].sock = passLog[k].sock
    /\ (lastMsg # 0) <=> (Commands(passLog) # <<>>)

\* C15 witness: a valid command was read and handled while more bytes of
\* the same connection were waiting for the next read.
C15_Witness ==
    /\ lastOp = "HandleDataLoop"
    /\ Len(passLog) = 2
    /\ passLog[2].ev = "HandleCommand"
    /\ pending[passLog[1].sock] > 0
    /\ lastResult.outcome = "spawned"

\* C16: one read is one message.  A step of the loop that takes bytes off
\* the connection hands exactly those bytes to HandleCommand, once; a read
\* of zero bytes hands over nothing; no other step handles a message.
C16_OneReadOneMessage ==
    /\ [][ lastOp' = "HandleDataLoop" =>
             IF pending'[CurSocket] < pending[CurSocket]
             THEN /\ Commands(passLog') =
                        <<CommandEvent(CurSocket, pending[CurSocket] - pending'[CurSocket])>>
                  /\ lastMsg' # 0
             ELSE /\ Commands(passLog') = <<>>
                  /\ lastMsg' = 0 ]_vars
    /\ [][ lastOp' # "HandleDataLoop" =>
             (Commands(passLog') = <<>> /\ lastMsg' = 0) ]_vars

\* C16 witness: one byte of two arrived and was handled on its own, as a
\* message that does not parse.
C16_Witness ==
    /\ lastOp = "HandleDataLoop"
    /\ passLog = <<RecvEvent(CurSocket, 1), CommandEvent(CurSocket, 1)>>
    /\ pending[CurSocket] = 1
    /\ lastResult.outcome = "parse_error"

(* ------------------------------- accept ------------------------------- *)

\* Client sockets created by the step.
NewClients == { h \in Handles : kind[h] = "none" /\ kind'[h] = "client" }

\* C17: a Tick accepts at most one connection.  If Accept returned a
\* socket, that one socket is appended at the end of the list; otherwise
\* the accept step leaves the list as it was.  The rest of a Tick never
\* adds to the list.
C17_AtMostOneAccept ==
    /\ [][ lastOp' = "Tick" =>
             /\ Cardinality(NewClients) <= 1
             /\ NewClients = {} =>
                   (ConnectedSockets' = ConnectedSockets /\ passLog' = <<>>)
             /\ \A h \in NewClients :
                   /\ ConnectedSockets' = Append(ConnectedSockets, h)
                   /\ passLog' = <<AcceptEvent(h)>> ]_vars
    /\ [][ lastOp' \in {"HandleDataLoop", "HandleDataEnd"} =>
             (NewClients = {} /\ Len(ConnectedSockets') <= Len(ConnectedSockets)) ]_vars

\* C17 witness: a Tick accepted a connection and appended it behind the
\* one the list already held.
C17_Witness ==
    /\ lastOp = "Tick"
    /\ Len(ConnectedSockets) = 2
    /\ passLog = <<AcceptEvent(ConnectedSockets[2])>>

(* ------------------------- state invariants --------------------------- *)

\* C18: between operations, that is, in every state of a live process, the
\* server is running exactly when it holds a listening socket,
\* and that socket is open, so the accept step never works on a null
\* handle; a server that is not running holds no connection.
C18_RunningIffListening ==
    pc # "crashed" =>
        /\ bIsServerRunning <=> (ListenSocket # Null)
        /\ ListenSocket # Null => (kind[ListenSocket] = "listen" /\ IsOpen(ListenSocket))
        /\ ~bIsServerRunning => ConnectedSockets = <<>>

\* C18 witness: the accept step ran on the listening socket of a server
\* that had been stopped and started again.
C18_Witness ==
    /\ lastOp = "Tick"
    /\ bIsServerRunning
    /\ passLog # <<>>
    /\ \E h \in Handles : kind[h] = "listen" /\ destroyed[h] = 1

\* C19: within a Tick every connection of the list as it stood after the
\* accept step is polled exactly once, also when connections are removed
\* during the Tick, and the loop index stays inside the list.
C19_EachPolledOnce ==
    /\ \A i, j \in 1..Len(Polled) : i # j => Polled[i] # Polled[j]
    /\ Range(Polled) \subseteq Range(tickList)
    /\ (TickOver /\ tickLog # <<>>) => Range(Polled) = Range(tickList)
    /\ pc = "HandleData" =>
          /\ idx \in 1..Len(ConnectedSockets)
          /\ CurSocket \in Range(tickList) \ Range(Polled)

\* C19 witness: a Tick over two connections removed the one it polled
\* first and went on to poll the other.
C19_Witness ==
    /\ TickOver
    /\ Len(tickList) = 2
    /\ Len(tickLog) = 3
    /\ destroyed[tickList[2]] = 1
    /\ ConnectedSockets = <<tickList[1]>>

(* ------------------------------ instance ------------------------------ *)

\* C20: at most one server object exists at any time, and Instance is set
\* exactly when one exists; a ShutdownModule that returns leaves no instance
\* and no socket; without an instance there is no server state; the first
\* Stop or Tick after that (a Tick delivered to a still registered callback
\* included) creates an instance that is not running, has no listening
\* socket and no connection, and makes no socket call; the first Start after
\* that starts from such an instance.
C20_FreshInstanceAfterShutdown ==
    /\ [](serverObjects <= 1)
    /\ [](Instance <=> serverObjects = 1)
    /\ [](~Instance =>
            /\ ~bIsServerRunning /\ ListenSocket = Null /\ ConnectedSockets = <<>>
            /\ LiveSockets = {})
    /\ [][ (lastOp' = "ShutdownModule" /\ pc' # "crashed") =>
             (~Instance' /\ serverObjects' = 0) ]_vars
    /\ [][ (~Instance /\ lastOp' \in {"Tick", "Stop"}) =>
             /\ Instance' /\ serverObjects' = 1
             /\ ~bIsServerRunning' /\ ListenSocket' = Null /\ ConnectedSockets' = <<>>
             /\ UNCHANGED sockVars
             /\ pc' = "idle" /\ passLog' = <<>> ]_vars
    /\ [][ (~Instance /\ lastOp' \in StartOps) =>
             /\ Instance' /\ serverObjects' = 1
             /\ ConnectedSockets' = <<>>
             /\ bIsServerRunning' <=> startResult'
             /\ bIsServerRunning' => ListenSocket' = nextHandle ]_vars

\* C20 witness: ShutdownModule destroyed a server that had owned sockets and
\* removed the binding TickDelegateHandle named, but a binding whose handle
\* an earlier StartupModule had overwritten stayed on OnWorldTick; a Tick was
\* delivered after that and created the one new instance.
C20_Witness ==
    /\ lastOp = "Tick"
    /\ StaleTickBinding /\ ~TickHandleBound /\ ~ModuleLoaded
    /\ Instance /\ serverObjects = 1 /\ ~bIsServerRunning
    /\ nextHandle > 2
    /\ LiveSockets = {}

====
